---- MODULE Spec2Model ----
(***************************************************************************)
(* Model of the space_scrap multiplayer room server (the socket.io event   *)
(* handlers of the server module): the room store, the player records, the *)
(* socket.io room membership, the pending grace-period timers and the      *)
(* messages each handler emits.                                            *)
(*                                                                         *)
(* Node runs every handler and every timer callback to completion, so each *)
(* handler is one atomic action.  Timers of equal delay fire in the order  *)
(* in which they were scheduled, so the pending timers are a FIFO queue.   *)
(***************************************************************************)
EXTENDS Integers, Sequences, FiniteSets, TLC

(***************************************************************************)
(* Bounds of the model: the connections opened, the Player records        *)
(* created and the ticks of the clock.                                     *)
(***************************************************************************)
MaxConns == 2
MaxPlayers == 3
MaxTicks == 2

(* The turn counter is followed up to this number. *)
MaxTurnNumber == 3

(* Granularity of the model clock, in milliseconds: half a grace period,   *)
(* so that two disconnects can fall at different times within one window.  *)
TickMs == 30000

(* const DISCONNECTION_GRACE_PERIOD = 60000; *)
DISCONNECTION_GRACE_PERIOD == 60000

Conns == 1..MaxConns

(* The values generateRoomId (Math.random) can return: the outcome of the   *)
(* generator is a choice in this set, and nothing in create-room keeps it   *)
(* from being the id of a live room.                                        *)
GeneratedIds == {"AB12CD"}

(* The room ids a client can send with join-room: a generated id, or one    *)
(* that is no id of the store (the same letters in lower case).             *)
RoomIdInputs == GeneratedIds \cup {"ab12cd"}

Ships == {"red", "blue"}

(* The nicknames a client sends: "" stands for a missing nickname. *)
CreateNicknames == {"Ann"}
JoinNicknames == {""}

(* { position: null, rotation: null, scale: null } and the transforms sent. *)
NullTransform == "null"
Transforms == {"T1"}

(* JavaScript null for disconnectedAt; a timestamp t is <<t>>. *)
Null == <<>>

VARIABLES
    rooms,      \* the Map `rooms`, as the sequence of its values in insertion order
    sockets,    \* the connected sockets (socket.id)
    nextConn,   \* the id the next connection gets
    members,    \* socket.io room membership: members[roomId] = sockets that joined it
    timers,     \* pending setTimeout callbacks, in firing order
    now,        \* Date.now()
    nextUid,    \* identity of the next Player object created
    reaped,     \* reaped[roomId] = ships whose record a grace-period callback removed
                \* from the live room stored under roomId
    out,        \* the messages emitted by the last handler
    last,       \* the last handler that ran, its arguments and its outcome
    turns,      \* turns[roomId] = the turn and turnNumber of the room stored under
                \* roomId.  The server module keeps no turn state; the clients
                \* expect a server that does (currentTurn, turnNumber, end-turn).
    client      \* one browser running the client: the fields of its NetworkManager,
                \* the screen it shows and the session in its localStorage

vars == <<rooms, sockets, nextConn, members, timers, now, nextUid, reaped, out, last,
          turns, client>>

(* The turn state of a room id without a room, and that of a new room: *)
(* turn = A (red), turnNumber = 1.                                     *)
NoTurn == [turn |-> "", turnNumber |-> 0]
InitialTurn == [turn |-> "red", turnNumber |-> 1]

(* JavaScript null and undefined in a string field of the client; a number *)
(* field holds <<n>> for the number n and <<>> for undefined.              *)
JsNull == "null"
Undefined == "undefined"

(* localStorage.getItem('space_scrap_session') === null *)
NoSession == <<>>

(* The browser before the page is opened: no socket, nothing stored. *)
NoPage ==
    [conn |-> 0, screen |-> "closed", roomId |-> JsNull, playerShip |-> JsNull,
     nickname |-> JsNull, currentTurn |-> JsNull, turnNumber |-> <<0>>,
     leaving |-> FALSE, session |-> NoSession]

(***************************************************************************)
(* Helpers on the room store.                                              *)
(***************************************************************************)

(* rooms.get(roomId): index of the entry in the Map, 0 for undefined. *)
RoomIndex(rs, roomId) ==
    IF \E i \in 1..Len(rs) : rs[i].id = roomId
    THEN CHOOSE i \in 1..Len(rs) : rs[i].id = roomId
    ELSE 0

HasRoom(rs, roomId) == RoomIndex(rs, roomId) # 0

GetRoom(rs, roomId) == rs[RoomIndex(rs, roomId)]

(* rooms.set(roomId, room): an existing key keeps its position in the Map. *)
SetRoom(rs, roomId, room) ==
    IF HasRoom(rs, roomId)
    THEN [rs EXCEPT ![RoomIndex(rs, roomId)] = room]
    ELSE Append(rs, room)

RemoveAt(s, i) == [j \in 1..(Len(s) - 1) |-> IF j < i THEN s[j] ELSE s[j + 1]]

(* rooms.delete(roomId) *)
DeleteRoom(rs, roomId) == RemoveAt(rs, RoomIndex(rs, roomId))

(* Mutant: the record is not taken out of the list. *)
Splice_Forgotten(players, playerIndex) == players

(* players.splice(playerIndex, 1) *)
Splice(players, playerIndex) == RemoveAt(players, playerIndex)

(* Mutant: the lookup settles for the first player of the room. *)
FindByShip_AnyPlayer(players, ship) == IF Len(players) > 0 THEN 1 ELSE 0

(* players.find(p => p.ship === ship): index of the first match, 0 for undefined. *)
FindByShip(players, ship) ==
    IF \E i \in 1..Len(players) : players[i].ship = ship
    THEN CHOOSE i \in 1..Len(players) :
            /\ players[i].ship = ship
            /\ \A j \in 1..(i - 1) : players[j].ship # ship
    ELSE 0

(* players.find(p => p.id === socketId) *)
FindById(players, c) ==
    IF \E i \in 1..Len(players) : players[i].id = c
    THEN CHOOSE i \in 1..Len(players) :
            /\ players[i].id = c
            /\ \A j \in 1..(i - 1) : players[j].id # c
    ELSE 0

(* nickname || fallback *)
OrDefault(nickname, fallback) == IF nickname = "" THEN fallback ELSE nickname

NewPlayer(c, ship, nickname, uid) ==
    [id |-> c, ship |-> ship, nickname |-> nickname,
     connected |-> TRUE, disconnectedAt |-> Null, uid |-> uid]

InitialGameState == [redShip |-> NullTransform, blueShip |-> NullTransform]

(* The ship join-room assigns. *)
JoinShip == "blue"

(* Mutant: the capacity test is off by one. *)
RoomIsFull_OffByOne(room) == Len(room.players) > 2

(* room.players.length >= 2 *)
RoomIsFull(room) == Len(room.players) >= 2

(* The player list as it is serialised into a message. *)
Wire(players) ==
    [i \in 1..Len(players) |->
        [id |-> players[i].id, ship |-> players[i].ship,
         nickname |-> players[i].nickname, connected |-> players[i].connected,
         disconnectedAt |-> players[i].disconnectedAt]]

(***************************************************************************)
(* Messages.                                                               *)
(***************************************************************************)
Msg(to, type, data) == [to |-> to, type |-> type, data |-> data]

(* socket.emit(type, data) *)
Emit(c, type, data) == {Msg(c, type, data)}

(* Mutant: the relay is sent with io.to(roomId), the sender included. *)
EmitTo_WithSender(c, roomId, type, data) ==
    IF roomId \in DOMAIN members
    THEN {Msg(d, type, data) : d \in members[roomId]}
    ELSE {}

(* socket.to(roomId).emit(type, data): every member of the room but the sender *)
EmitTo(c, roomId, type, data) ==
    IF roomId \in DOMAIN members
    THEN {Msg(d, type, data) : d \in members[roomId] \ {c}}
    ELSE {}

(* io.to(roomId).emit(type, data): every member of the room *)
EmitAll(roomId, type, data) == {Msg(d, type, data) : d \in members[roomId]}

(* Mutant: the error goes to every connected socket. *)
Error_Broadcast(c, message) == {Msg(d, "error", [message |-> message]) : d \in sockets}

(* socket.emit('error', { message }) *)
Error(c, message) == Emit(c, "error", [message |-> message])

(* The record of a handler run; uid is used by the timer callback only. *)
Last(op, c, roomId, ship, result) ==
    [op |-> op, conn |-> c, roomId |-> roomId, ship |-> ship, result |-> result,
     uid |-> 0, removed |-> 0]

(* The record of a timer callback run: the player object the callback closes *)
(* over and the player object it removed (0 for none).                       *)
LastTimer(t, result, removed) ==
    [op |-> "grace-timeout", conn |-> 0, roomId |-> t.roomId, ship |-> t.ship,
     result |-> result, uid |-> t.uid, removed |-> removed]

(* Identity of the Player objects.  A Player record is a JavaScript object *)
(* and the timer callback closes over it; uid stands for its identity.     *)
Uids(rs) ==
    UNION {{rs[k].players[i].uid : i \in 1..Len(rs[k].players)} : k \in 1..Len(rs)}

(***************************************************************************)
(* Initial state: no connection, no room, no timer.                        *)
(***************************************************************************)
Init ==
    /\ rooms = <<>>
    /\ sockets = {}
    /\ nextConn = 1
    /\ members = [r \in GeneratedIds |-> {}]
    /\ timers = <<>>
    /\ now = 0
    /\ nextUid = 1
    /\ reaped = [r \in GeneratedIds |-> {}]
    /\ out = {}
    /\ last = Last("init", 0, "", "", "")
    /\ turns = [r \in GeneratedIds |-> NoTurn]
    /\ client = NoPage

(* io.on('connection') *)
Connect ==
    /\ nextConn <= MaxConns
    /\ sockets' = sockets \cup {nextConn}
    /\ nextConn' = nextConn + 1
    /\ out' = {}
    /\ last' = Last("connection", nextConn, "", "", "")
    /\ UNCHANGED <<rooms, members, timers, now, nextUid, reaped>>

(* socket.on('create-room') *)
CreateRoom(c, roomId, nicknameIn) ==
    LET nickname == OrDefault(nicknameIn, "Player 1") IN
    /\ c \in sockets
    /\ nextUid <= MaxPlayers
    /\ nextUid' = nextUid + 1
    /\ rooms' = SetRoom(rooms, roomId,
                    [id |-> roomId,
                     players |-> <<NewPlayer(c, "red", nickname, nextUid)>>,
                     gameState |-> InitialGameState])
    /\ members' = [members EXCEPT ![roomId] = @ \cup {c}]
    /\ reaped' = [reaped EXCEPT ![roomId] = {}]
    /\ out' = Emit(c, "room-created",
                [roomId |-> roomId, playerShip |-> "red", nickname |-> nickname])
    /\ last' = Last("create-room", c, roomId, "red", "room-created")
    /\ UNCHANGED <<sockets, nextConn, timers, now>>

(* socket.on('join-room') *)
JoinRoom(c, roomId, nicknameIn) ==
    /\ c \in sockets
    /\ IF ~HasRoom(rooms, roomId)
       THEN /\ out' = Error(c, "Room not found")
            /\ last' = Last("join-room", c, roomId, "", "Room not found")
            /\ UNCHANGED <<rooms, members, nextUid>>
       ELSE LET room == GetRoom(rooms, roomId) IN
            IF RoomIsFull(room)
            THEN /\ out' = Error(c, "Room is full")
                 /\ last' = Last("join-room", c, roomId, "", "Room is full")
                 /\ UNCHANGED <<rooms, members, nextUid>>
            ELSE LET playerShip == JoinShip
                     playerNickname == OrDefault(nicknameIn, "Player 2")
                     joined == [room EXCEPT !.players =
                                   Append(@, NewPlayer(c, playerShip, playerNickname, nextUid))]
                 IN /\ nextUid <= MaxPlayers
                    /\ nextUid' = nextUid + 1
                    /\ rooms' = SetRoom(rooms, roomId, joined)
                    /\ members' = [members EXCEPT ![roomId] = @ \cup {c}]
                    /\ out' = Emit(c, "room-joined",
                                  [roomId |-> roomId, playerShip |-> playerShip,
                                   nickname |-> playerNickname,
                                   gameState |-> joined.gameState,
                                   players |-> Wire(joined.players)])
                              \cup EmitTo(c, roomId, "player-joined",
                                  [playerShip |-> playerShip, nickname |-> playerNickname])
                    /\ last' = Last("join-room", c, roomId, playerShip, "room-joined")
    /\ UNCHANGED <<sockets, nextConn, timers, now, reaped>>

(* Mutant: the transform is relayed but not stored. *)
StoreTransform_Dropped(gameState, ship, transform) == gameState

(* room.gameState after the assignment of ship-update *)
StoreTransform(gameState, ship, transform) ==
    IF ship = "red" THEN [gameState EXCEPT !.redShip = transform]
    ELSE IF ship = "blue" THEN [gameState EXCEPT !.blueShip = transform]
    ELSE gameState

(* socket.on('ship-update') *)
ShipUpdate(c, roomId, ship, transform) ==
    /\ c \in sockets
    /\ IF ~HasRoom(rooms, roomId)
       THEN /\ out' = {}
            /\ last' = Last("ship-update", c, roomId, ship, "ignored")
            /\ UNCHANGED rooms
       ELSE LET room == GetRoom(rooms, roomId) IN
            /\ rooms' = SetRoom(rooms, roomId,
                            [room EXCEPT !.gameState = StoreTransform(@, ship, transform)])
            /\ out' = EmitTo(c, roomId, "ship-updated",
                          [ship |-> ship, transform |-> transform])
            /\ last' = Last("ship-update", c, roomId, ship, "ship-updated")
    /\ UNCHANGED <<sockets, nextConn, members, timers, now, nextUid, reaped>>

(* socket.on('transform-mode-change') *)
TransformModeChange(c, roomId, mode) ==
    /\ c \in sockets
    /\ out' = EmitTo(c, roomId, "transform-mode-changed", [mode |-> mode])
    /\ last' = Last("transform-mode-change", c, roomId, "", "transform-mode-changed")
    /\ UNCHANGED <<rooms, sockets, nextConn, members, timers, now, nextUid, reaped>>

(* socket.on('ship-selection-change') *)
ShipSelectionChange(c, roomId, ship) ==
    /\ c \in sockets
    /\ out' = EmitTo(c, roomId, "ship-selection-changed", [ship |-> ship])
    /\ last' = Last("ship-selection-change", c, roomId, ship, "ship-selection-changed")
    /\ UNCHANGED <<rooms, sockets, nextConn, members, timers, now, nextUid, reaped>>

(* Mutant: the record is relabelled with the default name of a joiner. *)
Rebind_Renamed(players, i, c) ==
    [players EXCEPT ![i].id = c, ![i].connected = TRUE, ![i].disconnectedAt = Null,
                    ![i].nickname = "Player 2"]

(* player.id = socket.id; player.connected = true; player.disconnectedAt = null *)
Rebind(players, i, c) ==
    [players EXCEPT ![i].id = c, ![i].connected = TRUE, ![i].disconnectedAt = Null]

(* socket.on('reconnect-room') *)
ReconnectRoom(c, roomId, playerShip) ==
    /\ c \in sockets
    /\ IF ~HasRoom(rooms, roomId)
       THEN /\ out' = Error(c, "Room not found or expired")
            /\ last' = Last("reconnect-room", c, roomId, playerShip,
                            "Room not found or expired")
            /\ UNCHANGED <<rooms, members>>
       ELSE LET room == GetRoom(rooms, roomId)
                i == FindByShip(room.players, playerShip)
            IN IF i = 0
               THEN /\ out' = Error(c, "Player not found in this room")
                    /\ last' = Last("reconnect-room", c, roomId, playerShip,
                                    "Player not found in this room")
                    /\ UNCHANGED <<rooms, members>>
               ELSE LET rebound == [room EXCEPT !.players = Rebind(@, i, c)] IN
                    /\ rooms' = SetRoom(rooms, roomId, rebound)
                    /\ members' = [members EXCEPT ![roomId] = @ \cup {c}]
                    /\ out' = Emit(c, "reconnected",
                                  [roomId |-> roomId, playerShip |-> playerShip,
                                   nickname |-> rebound.players[i].nickname,
                                   gameState |-> rebound.gameState,
                                   players |-> Wire(rebound.players)])
                              \cup EmitTo(c, roomId, "player-reconnected",
                                  [playerShip |-> playerShip,
                                   nickname |-> rebound.players[i].nickname])
                    /\ last' = Last("reconnect-room", c, roomId, playerShip, "reconnected")
    /\ UNCHANGED <<sockets, nextConn, timers, now, nextUid, reaped>>

(* Mutant: the player is removed at once instead of being marked. *)
MarkDisconnected_Remove(players, i, t) == RemoveAt(players, i)

(* player.connected = false; player.disconnectedAt = Date.now() *)
MarkDisconnected(players, i, t) ==
    [players EXCEPT ![i].connected = FALSE, ![i].disconnectedAt = <<t>>]

(* The room the loop of the disconnect handler stops at: the first entry of  *)
(* the Map that has a player whose id is the socket's; 0 when there is none. *)
FirstRoomOf(rs, c) ==
    IF \E k \in 1..Len(rs) : FindById(rs[k].players, c) # 0
    THEN CHOOSE k \in 1..Len(rs) :
            /\ FindById(rs[k].players, c) # 0
            /\ \A j \in 1..(k - 1) : FindById(rs[j].players, c) = 0
    ELSE 0

(* The callback handed to setTimeout: it closes over roomId and player. *)
GraceTimer(roomId, player, t) ==
    [roomId |-> roomId, ship |-> player.ship, uid |-> player.uid,
     deadline |-> t + DISCONNECTION_GRACE_PERIOD]

(* socket.on('disconnect'); socket.io has removed the socket from its rooms *)
(* before the handler runs.                                                 *)
Disconnect(c) ==
    LET k == FirstRoomOf(rooms, c)
        left == [r \in GeneratedIds |-> members[r] \ {c}]
    IN
    /\ c \in sockets
    /\ sockets' = sockets \ {c}
    /\ members' = left
    /\ IF k = 0
       THEN /\ out' = {}
            /\ last' = Last("disconnect", c, "", "", "no player")
            /\ UNCHANGED <<rooms, timers>>
       ELSE LET roomId == rooms[k].id
                i == FindById(rooms[k].players, c)
                player == rooms[k].players[i]
            IN /\ rooms' = [rooms EXCEPT ![k].players = MarkDisconnected(@, i, now)]
               /\ out' = {Msg(d, "player-disconnected",
                              [playerShip |-> player.ship, nickname |-> player.nickname]) :
                          d \in left[roomId]}
               /\ timers' = Append(timers, GraceTimer(roomId, player, now))
               /\ last' = Last("disconnect", c, roomId, player.ship, "player-disconnected")
    /\ UNCHANGED <<nextConn, now, nextUid, reaped>>

(* Mutant: the callback does not look at the connected flag. *)
StillDisconnected_Unchecked(players, i) == i # 0

(* currentPlayer && !currentPlayer.connected *)
StillDisconnected(players, i) == i # 0 /\ ~players[i].connected

(* Mutant: an empty room is never recognised. *)
RoomIsEmpty_Never(room) == FALSE

(* Mutant: a room with one player left counts as empty. *)
RoomIsEmpty_AtMostOne(room) == Len(room.players) <= 1

(* currentRoom.players.length === 0 *)
RoomIsEmpty(room) == Len(room.players) = 0

(* The grace-period callback of the oldest pending timer fires. *)
GraceTimeout ==
    /\ timers # <<>>
    /\ Head(timers).deadline <= now
    /\ LET t == Head(timers) IN
       /\ timers' = Tail(timers)
       /\ IF ~HasRoom(rooms, t.roomId)
          THEN /\ out' = {}
               /\ last' = LastTimer(t, "no room", 0)
               /\ UNCHANGED <<rooms, reaped>>
          ELSE LET currentRoom == GetRoom(rooms, t.roomId)
                   i == FindByShip(currentRoom.players, t.ship)
               IN IF StillDisconnected(currentRoom.players, i)
                  THEN LET currentPlayer == currentRoom.players[i]
                           spliced == [currentRoom EXCEPT !.players = Splice(@, i)]
                       IN /\ out' = EmitAll(t.roomId, "player-left",
                                        [playerShip |-> currentPlayer.ship,
                                         nickname |-> currentPlayer.nickname])
                          /\ IF RoomIsEmpty(spliced)
                             THEN /\ rooms' = DeleteRoom(rooms, t.roomId)
                                  /\ reaped' = [reaped EXCEPT ![t.roomId] = {}]
                             ELSE /\ rooms' = SetRoom(rooms, t.roomId, spliced)
                                  /\ reaped' = [reaped EXCEPT ![t.roomId] =
                                                   @ \cup {currentPlayer.ship}]
                          /\ last' = LastTimer(t, "player-left", currentPlayer.uid)
                  ELSE /\ out' = {}
                       /\ last' = LastTimer(t, "kept", 0)
                       /\ UNCHANGED <<rooms, reaped>>
    /\ UNCHANGED <<sockets, nextConn, members, now, nextUid>>

(* socket.on('get-room-info') *)
GetRoomInfo(c, roomId) ==
    /\ c \in sockets
    /\ IF ~HasRoom(rooms, roomId)
       THEN /\ out' = Error(c, "Room not found")
            /\ last' = Last("get-room-info", c, roomId, "", "Room not found")
       ELSE LET room == GetRoom(rooms, roomId) IN
            /\ out' = Emit(c, "room-info",
                          [roomId |-> room.id, players |-> Wire(room.players),
                           gameState |-> room.gameState])
            /\ last' = Last("get-room-info", c, roomId, "", "room-info")
    /\ UNCHANGED <<rooms, sockets, nextConn, members, timers, now, nextUid, reaped>>

(* Time passes.  The server reads the clock only to stamp a disconnect and  *)
(* to fire the timers, so the clock is followed while a timer is pending;  *)
(* a due timer fires before the clock moves on.                            *)
Tick ==
    /\ now < MaxTicks * TickMs
    /\ timers # <<>>
    /\ \A k \in 1..Len(timers) : timers[k].deadline > now
    /\ now' = now + TickMs
    /\ out' = {}
    /\ last' = Last("tick", 0, "", "", "")
    /\ UNCHANGED <<rooms, sockets, nextConn, members, timers, nextUid, reaped>>

(* The server module as it is: it keeps no turn state. *)
Next ==
    \/ Connect /\ UNCHANGED <<turns, client>>
    \/ \E c \in Conns, r \in GeneratedIds, n \in CreateNicknames :
          CreateRoom(c, r, n) /\ UNCHANGED <<turns, client>>
    \/ \E c \in Conns, r \in RoomIdInputs, n \in JoinNicknames :
          JoinRoom(c, r, n) /\ UNCHANGED <<turns, client>>
    \/ \E c \in Conns, r \in GeneratedIds, s \in Ships, t \in Transforms :
          ShipUpdate(c, r, s, t) /\ UNCHANGED <<turns, client>>
    \/ \E c \in Conns, r \in GeneratedIds :
          TransformModeChange(c, r, "rotate") /\ UNCHANGED <<turns, client>>
    \/ \E c \in Conns, r \in GeneratedIds, s \in Ships :
          ShipSelectionChange(c, r, s) /\ UNCHANGED <<turns, client>>
    \/ \E c \in Conns, r \in GeneratedIds, s \in Ships :
          ReconnectRoom(c, r, s) /\ UNCHANGED <<turns, client>>
    \/ \E c \in Conns : Disconnect(c) /\ UNCHANGED <<turns, client>>
    \/ GraceTimeout /\ UNCHANGED <<turns, client>>
    \/ \E c \in Conns, r \in GeneratedIds : GetRoomInfo(c, r) /\ UNCHANGED <<turns, client>>
    \/ Tick /\ UNCHANGED <<turns, client>>

Spec == Init /\ [][Next]_vars

(* The server module with the guarantees of the event loop: a timer that *)
(* is due fires, and time passes while timers are pending.               *)
SpecFair ==
    /\ Init
    /\ [][Next]_vars
    /\ WF_vars(GraceTimeout /\ UNCHANGED <<turns, client>>)
    /\ WF_vars(Tick /\ UNCHANGED <<turns, client>>)

(***************************************************************************)
(* The turn state machine.  The clients send end-turn and read currentTurn *)
(* and turnNumber from the server's messages, so the server they talk to   *)
(* keeps a turn per room; the handlers below follow the description of the *)
(* coordinator: EndTurn is valid only if the requesting slot holds the     *)
(* turn and both slots are occupied, otherwise it is a no-op that reports  *)
(* NotYourTurn, or OpponentAbsent if only one slot is occupied, to the     *)
(* requester only.                                                         *)
(***************************************************************************)

OtherShip(ship) == IF ship = "red" THEN "blue" ELSE "red"

(* Mutant: the counter is increased but the turn stays with the same slot. *)
AdvanceTurn_SameSlot(t) == [turn |-> t.turn, turnNumber |-> t.turnNumber + 1]

(* A successful end-turn: the turn passes to the other slot. *)
AdvanceTurn(t) == [turn |-> OtherShip(t.turn), turnNumber |-> t.turnNumber + 1]

(* The slot of the requesting connection in the room; "" if it has none. *)
RequestingSlot(room, c) ==
    IF FindById(room.players, c) = 0 THEN ""
    ELSE room.players[FindById(room.players, c)].ship

(* Mutant: every requester is taken to hold the turn. *)
HoldsTurn_Always(room, c, t) == TRUE

(* requestingSlot == turn *)
HoldsTurn(room, c, t) == RequestingSlot(room, c) = t.turn

(* Mutant: the opponent is never missed. *)
OpponentAbsent_Never(room) == FALSE

(* Only one slot of the room is occupied. *)
OpponentAbsent(room) == Len(room.players) < 2

(* end-turn { roomId } *)
EndTurn(c, roomId) ==
    /\ c \in sockets
    /\ IF ~HasRoom(rooms, roomId)
       THEN /\ out' = Error(c, "Room not found")
            /\ last' = Last("end-turn", c, roomId, "", "Room not found")
            /\ UNCHANGED turns
       ELSE LET room == GetRoom(rooms, roomId)
                slot == RequestingSlot(room, c)
                turn == turns[roomId]
            IN IF OpponentAbsent(room)
               THEN /\ out' = Error(c, "OpponentAbsent")
                    /\ last' = Last("end-turn", c, roomId, slot, "OpponentAbsent")
                    /\ UNCHANGED turns
               ELSE IF ~HoldsTurn(room, c, turn)
               THEN /\ out' = Error(c, "NotYourTurn")
                    /\ last' = Last("end-turn", c, roomId, slot, "NotYourTurn")
                    /\ UNCHANGED turns
               ELSE /\ turn.turnNumber < MaxTurnNumber
                    /\ turns' = [turns EXCEPT ![roomId] = AdvanceTurn(turn)]
                    /\ out' = EmitAll(roomId, "turn-changed",
                                  [currentTurn |-> AdvanceTurn(turn).turn,
                                   turnNumber |-> AdvanceTurn(turn).turnNumber])
                    /\ last' = Last("end-turn", c, roomId, slot, "turn-changed")
    /\ UNCHANGED <<rooms, sockets, nextConn, members, timers, now, nextUid, reaped>>

(* The turn state after a timer callback: that of a deleted room is gone. *)
TurnsOfLiveRooms(rs) ==
    [r \in GeneratedIds |-> IF HasRoom(rs, r) THEN turns[r] ELSE NoTurn]

(* The object whose updates are followed together with the turn, and with *)
(* the clients that come back: the ship of the joiner.  Any connection    *)
(* may send them, in turn or out of turn.                                 *)
TurnUpdateShips == {"blue"}

(* The server with the turn state machine: create-room starts the turn of *)
(* the room, end-turn advances it, no other handler touches it.           *)
TurnNext ==
    \/ Connect /\ UNCHANGED <<turns, client>>
    \/ \E c \in Conns, r \in GeneratedIds, n \in CreateNicknames :
          CreateRoom(c, r, n) /\ turns' = [turns EXCEPT ![r] = InitialTurn]
             /\ UNCHANGED client
    \/ \E c \in Conns, r \in GeneratedIds, n \in JoinNicknames :
          JoinRoom(c, r, n) /\ UNCHANGED <<turns, client>>
    \/ \E c \in Conns, r \in GeneratedIds, s \in TurnUpdateShips, t \in Transforms :
          ShipUpdate(c, r, s, t) /\ UNCHANGED <<turns, client>>
    \/ \E c \in Conns, r \in GeneratedIds, s \in Ships :
          ReconnectRoom(c, r, s) /\ UNCHANGED <<turns, client>>
    \/ \E c \in Conns : Disconnect(c) /\ UNCHANGED <<turns, client>>
    \/ GraceTimeout /\ turns' = TurnsOfLiveRooms(rooms') /\ UNCHANGED client
    \/ Tick /\ UNCHANGED <<turns, client>>
    \/ \E c \in Conns, r \in GeneratedIds : EndTurn(c, r) /\ UNCHANGED client

SpecTurn == Init /\ [][TurnNext]_vars

(***************************************************************************)
(* Clients that come back.  A client whose socket closed opens a new one,  *)
(* which gets a new socket.id: at most MaxConns sockets are open at a time *)
(* and MaxReopens more connections are opened over the run.                *)
(***************************************************************************)
MaxReopens == 2

AllConns == 1..(MaxConns + MaxReopens)

(* io.on('connection'), for a first or a later connection of a client *)
Open ==
    /\ nextConn <= MaxConns + MaxReopens
    /\ Cardinality(sockets) < MaxConns
    /\ sockets' = sockets \cup {nextConn}
    /\ nextConn' = nextConn + 1
    /\ out' = {}
    /\ last' = Last("connection", nextConn, "", "", "")
    /\ UNCHANGED <<rooms, members, timers, now, nextUid, reaped>>

(* The server module as it is, with clients that come back. *)
RejoinNext ==
    \/ Open /\ UNCHANGED <<turns, client>>
    \/ \E c \in AllConns, r \in GeneratedIds, n \in CreateNicknames :
          CreateRoom(c, r, n) /\ UNCHANGED <<turns, client>>
    \/ \E c \in AllConns, r \in GeneratedIds, n \in JoinNicknames :
          JoinRoom(c, r, n) /\ UNCHANGED <<turns, client>>
    \/ \E c \in AllConns, r \in GeneratedIds, s \in TurnUpdateShips, t \in Transforms :
          ShipUpdate(c, r, s, t) /\ UNCHANGED <<turns, client>>
    \/ \E c \in AllConns, r \in GeneratedIds, s \in Ships :
          ReconnectRoom(c, r, s) /\ UNCHANGED <<turns, client>>
    \/ \E c \in AllConns : Disconnect(c) /\ UNCHANGED <<turns, client>>
    \/ GraceTimeout /\ UNCHANGED <<turns, client>>
    \/ Tick /\ UNCHANGED <<turns, client>>

SpecRejoin == Init /\ [][RejoinNext]_vars

(***************************************************************************)
(* The client.  One browser runs the page of the game: a NetworkManager    *)
(* with one socket, the session it keeps in localStorage, and the screen   *)
(* of the application.  A message the server emits to the page's socket is *)
(* handled by the listener of the page before the server handles the next  *)
(* event; the other connections are peers that send what they like.        *)
(***************************************************************************)

(* const ONE_HOUR = 60 * 60 * 1000; *)
ONE_HOUR == 3600000

(* What a player types into the room code field. *)
TypedRoomCodes == {"AB12CD", "ab12cd"}

(* roomCodeInput.value.trim().toUpperCase(), on the codes that are typed *)
ToUpperCase(code) == IF code = "ab12cd" THEN "AB12CD" ELSE code

(* data.field of a message, undefined when the message has no such field *)
StringField(data, field) == IF field \in DOMAIN data THEN data[field] ELSE Undefined
NumberField(data, field) == IF field \in DOMAIN data THEN <<data[field]>> ELSE <<>>

(* The truth value of a string field in a condition. *)
Truthy(value) == value \notin {"", JsNull, Undefined}

(* saveSession(): the value of localStorage after the call *)
SaveSession(cl, t) ==
    IF Truthy(cl.roomId) /\ Truthy(cl.playerShip) /\ Truthy(cl.nickname)
    THEN <<[roomId |-> cl.roomId, playerShip |-> cl.playerShip,
            nickname |-> cl.nickname, timestamp |-> t]>>
    ELSE cl.session

(* loadSession(): a session older than one hour is cleared and null returned *)
LoadSession(session, t) ==
    IF session = NoSession THEN NoSession
    ELSE IF t - session[1].timestamp > ONE_HOUR THEN NoSession
    ELSE session

(* isMyTurn(): this.currentTurn === this.playerShip *)
IsMyTurn(cl) == cl.currentTurn = cl.playerShip

(* data.message.includes('Room not found') || data.message.includes('expired'), *)
(* on the messages the server sends                                             *)
ClearsSession(message) == message \in {"Room not found", "Room not found or expired"}

(* The fields the room-created, room-joined and reconnected listeners set. *)
Entered(cl, data) ==
    [cl EXCEPT !.roomId = StringField(data, "roomId"),
               !.playerShip = StringField(data, "playerShip"),
               !.nickname = StringField(data, "nickname"),
               !.currentTurn = StringField(data, "currentTurn"),
               !.turnNumber = NumberField(data, "turnNumber"),
               !.screen = "room"]

(* The listener of the page for message m, with the callback of the *)
(* application it calls.                                            *)
Listen(cl, m, t) ==
    IF m.type \in {"room-created", "room-joined"}
    THEN [Entered(cl, m.data) EXCEPT !.session = SaveSession(Entered(cl, m.data), t)]
    ELSE IF m.type = "reconnected"
    THEN Entered(cl, m.data)
    ELSE IF m.type = "turn-changed"
    THEN [cl EXCEPT !.currentTurn = StringField(m.data, "currentTurn"),
                    !.turnNumber = NumberField(m.data, "turnNumber")]
    ELSE IF m.type = "error"
    THEN [cl EXCEPT !.screen = "lobby",
                    !.session = IF ClearsSession(m.data.message) THEN NoSession ELSE @]
    ELSE IF m.type = "player-left"
    THEN [cl EXCEPT !.leaving = TRUE]
    ELSE cl

(* The page after the messages of one server handler have reached it. *)
Deliver(cl, msgs, t) ==
    IF \E m \in msgs : m.to = cl.conn
    THEN Listen(cl, CHOOSE m \in msgs : m.to = cl.conn, t)
    ELSE cl


(* The steps that leave the page as it is, but for the messages it gets. *)
PageListens == client' = Deliver(client, out', now)

(* The page is opened: init() connects and, if a session is stored, sends *)
(* reconnect-room with it and waits for the answer.                       *)
AppStart ==
    /\ client.conn = 0
    /\ Open
    /\ LET session == LoadSession(client.session, now) IN
       client' = [NoPage EXCEPT !.conn = nextConn,
                                !.session = session,
                                !.screen = IF session # NoSession
                                              /\ Truthy(session[1].roomId)
                                              /\ Truthy(session[1].playerShip)
                                           THEN "reconnecting" ELSE "lobby"]

(* The server handles the reconnect-room of reconnectToRoom(). *)
AppReconnect ==
    /\ client.screen = "reconnecting"
    /\ ReconnectRoom(client.conn, client.session[1].roomId, client.session[1].playerShip)
    /\ PageListens

(* createRoomBtn click *)
AppCreate(roomId, typedNickname) ==
    /\ client.screen = "lobby"
    /\ CreateRoom(client.conn, roomId, OrDefault(typedNickname, "Player 1"))
    /\ PageListens

(* joinRoomBtn click; an empty room code is not sent *)
AppJoin(typedCode, typedNickname) ==
    /\ client.screen = "lobby"
    /\ ToUpperCase(typedCode) # ""
    /\ JoinRoom(client.conn, ToUpperCase(typedCode), OrDefault(typedNickname, "Player 2"))
    /\ PageListens

(* The timeout of the player-left callback: clearSession(), returnToLobby() *)
AppPlayerLeft ==
    /\ client.leaving
    /\ client' = [client EXCEPT !.leaving = FALSE, !.session = NoSession,
                                !.screen = "lobby"]
    /\ out' = {}
    /\ last' = Last("player-left-timeout", client.conn, "", "", "")
    /\ UNCHANGED <<rooms, sockets, nextConn, members, timers, now, nextUid, reaped>>

(* leaveGame(): the session is removed, the socket closed, the page left *)
AppLeave ==
    /\ client.screen = "room"
    /\ Disconnect(client.conn)
    /\ client' = NoPage

(* The page is closed or reloaded, or its connection is lost: the socket *)
(* closes, localStorage stays.                                           *)
AppClose ==
    /\ client.conn # 0
    /\ Disconnect(client.conn)
    /\ client' = [NoPage EXCEPT !.session = client.session]

(* The connections of the peers: other players, who create a room or join *)
(* one, and leave.                                                        *)
Peers == AllConns \ {client.conn}

(* The server module as it is, with the page of one client and its peers. *)
ClientNext ==
    \/ AppStart /\ UNCHANGED turns
    \/ AppReconnect /\ UNCHANGED turns
    \/ \E r \in GeneratedIds, n \in CreateNicknames : AppCreate(r, n) /\ UNCHANGED turns
    \/ \E r \in TypedRoomCodes, n \in JoinNicknames : AppJoin(r, n) /\ UNCHANGED turns
    \/ AppPlayerLeft /\ UNCHANGED turns
    \/ AppLeave /\ UNCHANGED turns
    \/ AppClose /\ UNCHANGED turns
    \/ Open /\ PageListens /\ UNCHANGED turns
    \/ \E c \in Peers, r \in GeneratedIds, n \in CreateNicknames :
          CreateRoom(c, r, n) /\ PageListens /\ UNCHANGED turns
    \/ \E c \in Peers, r \in GeneratedIds, n \in JoinNicknames :
          JoinRoom(c, r, n) /\ PageListens /\ UNCHANGED turns
    \/ \E c \in Peers : Disconnect(c) /\ PageListens /\ UNCHANGED turns
    \/ GraceTimeout /\ PageListens /\ UNCHANGED turns
    \/ Tick /\ PageListens /\ UNCHANGED turns

SpecClient == Init /\ [][ClientNext]_vars

(***************************************************************************)
(* Properties.                                                             *)
(***************************************************************************)
ErrorTo(c, message) == {[to |-> c, type |-> "error", data |-> [message |-> message]]}

(* C1: in every reachable state every live room holds at most one Player   *)
(* record per slot label (red, blue).                                       *)
C1_OnePlayerPerSlot ==
    \A k \in 1..Len(rooms) :
        \A i, j \in 1..Len(rooms[k].players) :
            rooms[k].players[i].ship = rooms[k].players[j].ship => i = j

(* C2: every room in the store has 1 or 2 Player records in every state,    *)
(* and the grace-period expiry that removes the last occupant of a room     *)
(* deletes the room in the same step.                                       *)
C2_OccupancyOneOrTwo ==
    /\ [](\A k \in 1..Len(rooms) : Len(rooms[k].players) \in {1, 2})
    /\ [][(/\ last'.op = "grace-timeout"
           /\ last'.result = "player-left"
           /\ Len(GetRoom(rooms, last'.roomId).players) = 1)
          => ~HasRoom(rooms', last'.roomId)]_vars

(* A grace-period expiry removed the last occupant and the room is gone. *)
C2_Witness ==
    /\ last.op = "grace-timeout"
    /\ last.result = "player-left"
    /\ ~HasRoom(rooms, last.roomId)

(* C3: a join-room on a room with one occupant succeeds and brings it to    *)
(* two; a join-room of another connection that is handled right after a     *)
(* successful join-room on the same room gets 'Room is full' and changes    *)
(* nothing; no room ever holds three Player records.                        *)
C3_ConcurrentJoinsSerialize ==
    /\ [](\A k \in 1..Len(rooms) : Len(rooms[k].players) < 3)
    /\ [][(/\ last'.op = "join-room"
           /\ HasRoom(rooms, last'.roomId)
           /\ Len(GetRoom(rooms, last'.roomId).players) = 1)
          => (/\ last'.result = "room-joined"
              /\ Len(GetRoom(rooms', last'.roomId).players) = 2)]_vars
    /\ [][(/\ last.op = "join-room"
           /\ last.result = "room-joined"
           /\ last'.op = "join-room"
           /\ last'.roomId = last.roomId
           /\ last'.conn # last.conn)
          => (/\ last'.result = "Room is full"
              /\ out' = ErrorTo(last'.conn, "Room is full")
              /\ rooms' = rooms)]_vars

(* A join-room was refused as full on a room whose blue player is another *)
(* connection that joined before.                                          *)
C3_Witness ==
    /\ last.op = "join-room"
    /\ last.result = "Room is full"
    /\ HasRoom(rooms, last.roomId)
    /\ LET players == GetRoom(rooms, last.roomId).players IN
       /\ Len(players) = 2
       /\ players[2].ship = "blue"
       /\ players[2].id # last.conn
       /\ players[2].connected

(* C4: create-room never allocates the id of a live room, so it never       *)
(* replaces the entry of a live room.                                       *)
C4_CreateAllocatesFreshId ==
    [][last'.op = "create-room" => ~HasRoom(rooms, last'.roomId)]_vars

(* C5: join-room on an absent room id answers 'Room not found', on a room   *)
(* with two occupants 'Room is full'; the error goes to the requester only, *)
(* nobody else receives a message and the room store is unchanged.          *)
C5_JoinErrors ==
    [][last'.op = "join-room" =>
        /\ ~HasRoom(rooms, last'.roomId) =>
              /\ last'.result = "Room not found"
              /\ out' = ErrorTo(last'.conn, "Room not found")
              /\ rooms' = rooms
        /\ (HasRoom(rooms, last'.roomId)
              /\ Len(GetRoom(rooms, last'.roomId).players) = 2) =>
              /\ last'.result = "Room is full"
              /\ out' = ErrorTo(last'.conn, "Room is full")
              /\ rooms' = rooms]_vars

(* A join-room was refused as full while another connection was a member  *)
(* of the room.                                                            *)
C5_Witness ==
    /\ last.op = "join-room"
    /\ last.result = "Room is full"
    /\ members[last.roomId] \ {last.conn} # {}
    /\ sockets \ {last.conn} # {}

(* C6: reconnect-room on an absent room answers 'Room not found or         *)
(* expired', on a room without a record for the requested ship 'Player not *)
(* found in this room'; on either failure the room store (players and      *)
(* gameState) is unchanged and the only message is the requester's error.  *)
C6_ReconnectErrors ==
    [][last'.op = "reconnect-room" =>
        /\ ~HasRoom(rooms, last'.roomId) =>
              /\ last'.result = "Room not found or expired"
              /\ out' = ErrorTo(last'.conn, "Room not found or expired")
              /\ rooms' = rooms
        /\ (HasRoom(rooms, last'.roomId)
              /\ \A i \in 1..Len(GetRoom(rooms, last'.roomId).players) :
                    GetRoom(rooms, last'.roomId).players[i].ship # last'.ship) =>
              /\ last'.result = "Player not found in this room"
              /\ out' = ErrorTo(last'.conn, "Player not found in this room")
              /\ rooms' = rooms]_vars

(* A reconnect-room for a ship the room does not hold was refused while    *)
(* another connection was a member of the room.                            *)
C6_Witness ==
    /\ last.op = "reconnect-room"
    /\ last.result = "Player not found in this room"
    /\ HasRoom(rooms, last.roomId)
    /\ members[last.roomId] \ {last.conn} # {}

(* C7: a reconnect-room for a slot of a live room whose Player record a    *)
(* grace-period callback has removed answers 'Player not found in this     *)
(* room' and rebinds no Player record.                                     *)
C7_ReconnectAfterRemoval ==
    [][(/\ last'.op = "reconnect-room"
        /\ HasRoom(rooms, last'.roomId)
        /\ last'.ship \in reaped[last'.roomId])
       => (/\ last'.result = "Player not found in this room"
           /\ rooms' = rooms)]_vars

(* C8: when the callback of a timer fires while the Player record it was   *)
(* scheduled for is in the room and connected (it reconnected in time),    *)
(* nothing happens: the room store is unchanged and no message is sent.    *)
C8_TimerNoOpAfterReconnect ==
    [][(/\ last'.op = "grace-timeout"
        /\ HasRoom(rooms, last'.roomId)
        /\ \E i \in 1..Len(GetRoom(rooms, last'.roomId).players) :
              /\ GetRoom(rooms, last'.roomId).players[i].uid = last'.uid
              /\ GetRoom(rooms, last'.roomId).players[i].connected)
       => (/\ rooms' = rooms
           /\ out' = {}
           /\ last'.result = "kept")]_vars

(* A timer fired for a record that had been rebound to another connection *)
(* and is still connected.                                                 *)
C8_Witness ==
    /\ last.op = "grace-timeout"
    /\ last.result = "kept"
    /\ HasRoom(rooms, last.roomId)
    /\ \E i \in 1..Len(GetRoom(rooms, last.roomId).players) :
          /\ GetRoom(rooms, last.roomId).players[i].uid = last.uid
          /\ GetRoom(rooms, last.roomId).players[i].connected
          /\ GetRoom(rooms, last.roomId).players[i].id \in sockets

(* The records of the room stored under roomId, identified by uid. *)
UidsIn(rs, roomId) ==
    IF HasRoom(rs, roomId)
    THEN {GetRoom(rs, roomId).players[i].uid : i \in 1..Len(GetRoom(rs, roomId).players)}
    ELSE {}

(* C9: a timer callback removes at most one Player record, and only one    *)
(* that is marked disconnected when it fires; it sends player-left exactly *)
(* when it removes, for the removed record; a removed record is out of the *)
(* store and no record ever comes back, so however many timers are pending *)
(* for a slot a record is removed, and announced as left, at most once.    *)
C9_TimersRemoveOnce ==
    /\ [][last'.op = "grace-timeout" =>
            IF last'.removed = 0
            THEN /\ rooms' = rooms
                 /\ out' = {}
            ELSE /\ \E i \in 1..Len(GetRoom(rooms, last'.roomId).players) :
                       LET p == GetRoom(rooms, last'.roomId).players[i] IN
                       /\ p.uid = last'.removed
                       /\ p.ship = last'.ship
                       /\ ~p.connected
                       /\ \A m \in out' :
                             /\ m.type = "player-left"
                             /\ m.data = [playerShip |-> p.ship, nickname |-> p.nickname]
                 /\ UidsIn(rooms', last'.roomId) =
                       UidsIn(rooms, last'.roomId) \ {last'.removed}
                 /\ last'.removed \notin Uids(rooms')]_vars
    /\ [][\A u \in Uids(rooms') : u \in Uids(rooms) \/ u = nextUid]_vars

(* A timer removed a record while another timer scheduled for the same     *)
(* record is still pending.                                                *)
C9_Witness ==
    /\ last.op = "grace-timeout"
    /\ last.removed # 0
    /\ \E k \in 1..Len(timers) :
          /\ timers[k].uid = last.removed
          /\ timers[k].roomId = last.roomId
          /\ timers[k].ship = last.ship

(* C10: a transport disconnect removes no Player record and deletes no     *)
(* room: the store holds the same rooms with the same gameState and the    *)
(* same players (connection id, ship, nickname); only the connected flag   *)
(* and disconnectedAt of a player of the disconnected socket change.       *)
C10_DisconnectKeepsRecords ==
    [][last'.op = "disconnect" =>
        /\ Len(rooms') = Len(rooms)
        /\ \A k \in 1..Len(rooms) :
              /\ rooms'[k].id = rooms[k].id
              /\ rooms'[k].gameState = rooms[k].gameState
              /\ Len(rooms'[k].players) = Len(rooms[k].players)
              /\ \A i \in 1..Len(rooms[k].players) :
                    LET p == rooms[k].players[i]
                        q == rooms'[k].players[i]
                    IN /\ q.id = p.id
                       /\ q.ship = p.ship
                       /\ q.nickname = p.nickname
                       /\ q.uid = p.uid
                       /\ q # p => (p.id = last'.conn /\ ~q.connected)]_vars

(* A disconnect marked a player, who is still in the store. *)
C10_Witness ==
    /\ last.op = "disconnect"
    /\ last.result = "player-disconnected"
    /\ HasRoom(rooms, last.roomId)
    /\ \E i \in 1..Len(GetRoom(rooms, last.roomId).players) :
          LET p == GetRoom(rooms, last.roomId).players[i] IN
          /\ p.id = last.conn
          /\ ~p.connected
          /\ p.disconnectedAt = <<now>>

(* C11: after the disconnect handler has run for connection c, every      *)
(* Player record in the store whose id is c is marked disconnected with a *)
(* disconnectedAt stamp, a grace-period timer has been scheduled for it by *)
(* this handler, and every socket still in its room has been sent          *)
(* player-disconnected for its ship.                                       *)
C11_DisconnectMarksEveryRecord ==
    [][last'.op = "disconnect" =>
        \A k \in 1..Len(rooms') : \A i \in 1..Len(rooms'[k].players) :
            LET q == rooms'[k].players[i] IN
            q.id = last'.conn =>
                /\ ~q.connected
                /\ q.disconnectedAt # Null
                /\ \E j \in (Len(timers) + 1)..Len(timers') :
                      /\ timers'[j].roomId = rooms'[k].id
                      /\ timers'[j].uid = q.uid
                /\ \A d \in members'[rooms'[k].id] :
                      Msg(d, "player-disconnected",
                          [playerShip |-> q.ship, nickname |-> q.nickname]) \in out']_vars

(* The room has exactly the occupants A (red) and B (blue), A connected. *)
RedAndBlue(room) ==
    /\ Len(room.players) = 2
    /\ room.players[1].ship = "red"
    /\ room.players[1].connected
    /\ room.players[2].ship = "blue"

(* C12 as stated: when the grace period of B (blue) has elapsed without a  *)
(* reconnect and the callback removes B from a room with occupants A (red) *)
(* and B, the room is deleted from the store.                              *)
C12_RoomDeletedWhenPeerLeaves ==
    [][(/\ last'.op = "grace-timeout"
        /\ last'.result = "player-left"
        /\ last'.ship = "blue"
        /\ RedAndBlue(GetRoom(rooms, last'.roomId)))
       => ~HasRoom(rooms', last'.roomId)]_vars

(* C12, amended: when the callback removes a record after the grace period *)
(* every connected occupant left in the room is sent player-left for the   *)
(* removed record; the room is deleted exactly when no record is left and  *)
(* otherwise stays in the store with the other records unchanged; and a    *)
(* reconnect-room that follows for the ship of a remaining record answers  *)
(* reconnected, not an error.                                              *)
C12_RoomKeptForRemainingOccupant ==
    /\ [][(last'.op = "grace-timeout" /\ last'.result = "player-left") =>
            LET before == GetRoom(rooms, last'.roomId)
                i == FindByShip(before.players, last'.ship)
                gone == before.players[i]
                left == [playerShip |-> gone.ship, nickname |-> gone.nickname]
            IN /\ \A j \in 1..Len(before.players) :
                     LET p == before.players[j] IN
                     (j # i /\ p.connected /\ p.id \in sockets)
                        => Msg(p.id, "player-left", left) \in out'
               /\ IF Len(before.players) = 1
                  THEN ~HasRoom(rooms', last'.roomId)
                  ELSE /\ HasRoom(rooms', last'.roomId)
                       /\ GetRoom(rooms', last'.roomId) =
                             [before EXCEPT !.players = RemoveAt(@, i)]]_vars
    /\ [][(/\ last.op = "grace-timeout"
           /\ last.result = "player-left"
           /\ HasRoom(rooms, last.roomId)
           /\ last'.op = "reconnect-room"
           /\ last'.roomId = last.roomId
           /\ FindByShip(GetRoom(rooms, last.roomId).players, last'.ship) # 0)
          => /\ last'.result = "reconnected"
             /\ \A m \in out' : m.type # "error"]_vars

(* B (blue) was removed after the grace period and A (red), the only       *)
(* occupant left, has reconnected to the room.                             *)
C12_Witness ==
    /\ last.op = "reconnect-room"
    /\ last.result = "reconnected"
    /\ last.ship = "red"
    /\ "blue" \in reaped[last.roomId]
    /\ HasRoom(rooms, last.roomId)
    /\ Len(GetRoom(rooms, last.roomId).players) = 1
    /\ GetRoom(rooms, last.roomId).players[1].ship = "red"

(* C13: when the disconnect of an occupant B is followed, with no other    *)
(* operation in between, by a successful reconnect-room for B's slot from  *)
(* a connection new to the room, the room is what it was before the        *)
(* disconnect: the same gameState, turn and turnNumber, the same records,  *)
(* B's record connected again (bound to the new connection, disconnectedAt *)
(* cleared); every other connected occupant was sent player-disconnected   *)
(* by the disconnect and is sent player-reconnected by the reconnect, and  *)
(* neither step sends player-left.                                         *)
C13_ReconnectInTimeRestoresRoom ==
    [][(/\ last.op = "disconnect"
        /\ last.result = "player-disconnected"
        /\ last'.op = "reconnect-room"
        /\ last'.result = "reconnected"
        /\ last'.roomId = last.roomId
        /\ last'.ship = last.ship
        /\ last'.conn \notin members[last.roomId])
       => LET mid == GetRoom(rooms, last.roomId)
              post == GetRoom(rooms', last.roomId)
              b == FindById(mid.players, last.conn)
              about == [playerShip |-> mid.players[b].ship,
                        nickname |-> mid.players[b].nickname]
          IN /\ post.gameState = mid.gameState
             /\ turns' = turns
             /\ post.players = [mid.players EXCEPT ![b].id = last'.conn,
                                                   ![b].connected = TRUE,
                                                   ![b].disconnectedAt = Null]
             /\ \A j \in 1..Len(mid.players) :
                   LET a == mid.players[j] IN
                   (a.connected /\ a.id \in sockets)
                      => /\ Msg(a.id, "player-disconnected", about) \in out
                         /\ Msg(a.id, "player-reconnected", about) \in out'
             /\ \A m \in out \cup out' : m.type # "player-left"]_vars

(* C14: a ship-update sent by an occupant of the room is stored as the     *)
(* transform of that ship, every other connected occupant is sent          *)
(* ship-updated with it, and nobody else is: not the author, and no        *)
(* connection that holds no slot of the room.                              *)
C14_UpdateRelayedToPeerOnly ==
    [][(/\ last'.op = "ship-update"
        /\ last'.result = "ship-updated"
        /\ FindById(GetRoom(rooms, last'.roomId).players, last'.conn) # 0)
       => LET room == GetRoom(rooms, last'.roomId)
              c == last'.conn
          IN \E t \in Transforms :
                /\ GetRoom(rooms', last'.roomId).gameState =
                      StoreTransform(room.gameState, last'.ship, t)
                /\ \A j \in 1..Len(room.players) :
                      LET p == room.players[j] IN
                      (p.connected /\ p.id \in sockets /\ p.id # c)
                         => Msg(p.id, "ship-updated",
                                [ship |-> last'.ship, transform |-> t]) \in out'
                /\ \A m \in out' :
                      /\ m.type = "ship-updated"
                      /\ m.to # c
                      /\ FindById(room.players, m.to) # 0]_vars

(* C15: a ship-update sent by an occupant whose slot does not hold the     *)
(* turn changes nothing in the room's stored gameState and is relayed to   *)
(* nobody.                                                                 *)
C15_UpdateOnlyInTurn ==
    [][(/\ last'.op = "ship-update"
        /\ HasRoom(rooms, last'.roomId)
        /\ FindById(GetRoom(rooms, last'.roomId).players, last'.conn) # 0
        /\ ~HoldsTurn(GetRoom(rooms, last'.roomId), last'.conn, turns[last'.roomId]))
       => /\ GetRoom(rooms', last'.roomId).gameState =
                GetRoom(rooms, last'.roomId).gameState
          /\ out' = {}]_vars

EndTurnOutOfTurn ==
    /\ last'.op = "end-turn"
    /\ HasRoom(rooms, last'.roomId)
    /\ RequestingSlot(GetRoom(rooms, last'.roomId), last'.conn) \in Ships
    /\ RequestingSlot(GetRoom(rooms, last'.roomId), last'.conn) # turns[last'.roomId].turn

C19_ShipAndNicknameFixed ==
    [][/\ rooms' # rooms =>
          \A k \in 1..Len(rooms) : \A i \in 1..Len(rooms[k].players) :
          \A n \in 1..Len(rooms') : \A j \in 1..Len(rooms'[n].players) :
             rooms'[n].players[j].uid = rooms[k].players[i].uid
                => /\ rooms'[n].players[j].ship = rooms[k].players[i].ship
                   /\ rooms'[n].players[j].nickname = rooms[k].players[i].nickname
       /\ (last'.op = "reconnect-room" /\ last'.result = "reconnected") =>
            \A k \in {RoomIndex(rooms, last'.roomId)} :
            \A i \in {FindByShip(rooms[k].players, last'.ship)} :
            \A p \in {rooms[k].players[i]} :
               /\ rooms' = [rooms EXCEPT ![k].players[i].id = last'.conn,
                                         ![k].players[i].connected = TRUE,
                                         ![k].players[i].disconnectedAt = Null]
               /\ \E m \in out' :
                     /\ m.to = last'.conn
                     /\ m.type = "reconnected"
                     /\ m.data.playerShip = p.ship
                     /\ m.data.nickname = p.nickname
               /\ \A m \in out' :
                     m.type \in {"reconnected", "player-reconnected"}
                        /\ m.data.nickname = p.nickname]_vars

(* The creator's record, named "Ann" by create-room on connection 1, was   *)
(* rebound to another connection after a disconnect, and the reconnected   *)
(* message names "Ann".                                                    *)
C19_Witness ==
    /\ last.op = "reconnect-room"
    /\ last.result = "reconnected"
    /\ last.ship = "red"
    /\ last.conn # 1
    /\ LET p == GetRoom(rooms, last.roomId).players[1] IN
       /\ p.uid = 1
       /\ p.ship = "red"
       /\ p.id = last.conn
       /\ p.nickname = "Ann"
    /\ \E k \in 1..Len(timers) : timers[k].uid = 1
    /\ \E m \in out : m.to = last.conn /\ m.type = "reconnected" /\ m.data.nickname = "Ann"

(* The transform stored for a ship. *)
StoredTransform(gameState, ship) ==
    IF ship = "red" THEN gameState.redShip ELSE gameState.blueShip

(* C20: a ship-update is stored in the room's gameState also while an      *)
(* occupant is disconnected, and is sent to open sockets only, never to    *)
(* the socket id of a disconnected record; a successful reconnect-room     *)
(* sends the requester one reconnected message and no ship-updated, and    *)
(* that message carries the gameState as stored; so when the reconnect     *)
(* follows an update made while the slot was disconnected, the snapshot    *)
(* has the transform of that update.                                       *)
C20_UpdatesStoredNotQueued ==
    /\ [][(last'.op = "ship-update" /\ last'.result = "ship-updated") =>
            LET room == GetRoom(rooms, last'.roomId) IN
            /\ StoredTransform(GetRoom(rooms', last'.roomId).gameState, last'.ship)
                  \in Transforms
            /\ \A m \in out' : m.to \in sockets
            /\ \A i \in 1..Len(room.players) :
                  ~room.players[i].connected
                     => \A m \in out' : m.to # room.players[i].id]_vars
    /\ [][(last'.op = "reconnect-room" /\ last'.result = "reconnected") =>
            /\ GetRoom(rooms', last'.roomId).gameState =
                  GetRoom(rooms, last'.roomId).gameState
            /\ \A m \in out' : m.type # "ship-updated"
            /\ \A m \in out' :
                  m.to = last'.conn
                     => /\ m.type = "reconnected"
                        /\ m.data.gameState = GetRoom(rooms, last'.roomId).gameState
            /\ \E m \in out' : m.to = last'.conn]_vars
    /\ [][(/\ last.op = "ship-update"
           /\ last.result = "ship-updated"
           /\ last'.op = "reconnect-room"
           /\ last'.result = "reconnected"
           /\ last'.roomId = last.roomId
           /\ \E i \in 1..Len(GetRoom(rooms, last.roomId).players) :
                 /\ GetRoom(rooms, last.roomId).players[i].ship = last'.ship
                 /\ ~GetRoom(rooms, last.roomId).players[i].connected)
          => \A m \in out' :
                m.to = last'.conn
                   => StoredTransform(m.data.gameState, last.ship) \in Transforms]_vars

(* The blue occupant's update of its ship was stored while the red         *)
(* occupant was disconnected, and went to nobody.                          *)
C20_Witness ==
    /\ last.op = "ship-update"
    /\ last.result = "ship-updated"
    /\ last.ship = "blue"
    /\ out = {}
    /\ LET room == GetRoom(rooms, last.roomId) IN
       /\ Len(room.players) = 2
       /\ room.players[1].ship = "red"
       /\ ~room.players[1].connected
       /\ room.players[2].ship = "blue"
       /\ room.players[2].id = last.conn
       /\ room.gameState.blueShip \in Transforms

(* C21: a reconnect-room for a slot of a live room whose record is marked  *)
(* connected is accepted and rebinds the record of the slot to the         *)
(* requesting connection; and when another connection (the superseded one  *)
(* among them) disconnects after that successful reconnect-room, the       *)
(* records of the slot stay as they are, no player-disconnected is sent    *)
(* for the slot and no grace-period timer is scheduled for it.             *)
C21_SupersededDisconnectIsInert ==
    /\ [][(/\ last'.op = "reconnect-room"
           /\ HasRoom(rooms, last'.roomId)
           /\ \E i \in 1..Len(GetRoom(rooms, last'.roomId).players) :
                 /\ GetRoom(rooms, last'.roomId).players[i].ship = last'.ship
                 /\ GetRoom(rooms, last'.roomId).players[i].connected)
          => \A i \in {FindByShip(GetRoom(rooms, last'.roomId).players, last'.ship)} :
                /\ last'.result = "reconnected"
                /\ GetRoom(rooms', last'.roomId).players[i].id = last'.conn
                /\ GetRoom(rooms', last'.roomId).players[i].connected]_vars
    /\ [][(/\ last.op = "reconnect-room"
           /\ last.result = "reconnected"
           /\ last'.op = "disconnect"
           /\ last'.conn # last.conn)
          => \A k \in {RoomIndex(rooms, last.roomId)} :
                /\ \A j \in 1..Len(rooms[k].players) :
                      rooms[k].players[j].ship = last.ship
                         => rooms'[k].players[j] = rooms[k].players[j]
                /\ \A m \in out' :
                      ~(/\ last'.roomId = last.roomId
                        /\ m.type = "player-disconnected"
                        /\ m.data.playerShip = last.ship)
                /\ \A j \in (Len(timers) + 1)..Len(timers') :
                      ~(timers'[j].roomId = last.roomId /\ timers'[j].ship = last.ship)]_vars

(* C22: when the reconnect-room the page sent at its start is answered     *)
(* with an error (room not found, or no player of that ship in the room),  *)
(* the session is removed from localStorage, so that the next start of the *)
(* page finds no session and sends no reconnect-room with it.              *)
C22_FailedReconnectDiscardsToken ==
    [][(/\ client.screen = "reconnecting"
        /\ last'.op = "reconnect-room"
        /\ last'.conn = client.conn
        /\ last'.result # "reconnected")
       => client'.session = NoSession]_vars

(* C23: a join-room, reconnect-room or get-room-info whose roomId is the   *)
(* id of a live room up to letter case is resolved to that room: it is not *)
(* answered with the room-not-found error.                                 *)
C23_RoomIdCaseInsensitive ==
    [][(/\ last'.op \in {"join-room", "reconnect-room", "get-room-info"}
        /\ HasRoom(rooms, ToUpperCase(last'.roomId)))
       => last'.result \notin {"Room not found", "Room not found or expired"}]_vars

(* C24: when the page's create-room has succeeded the page holds           *)
(* currentTurn = its own ship (red) and turnNumber = 1, so isMyTurn() is   *)
(* true for the creator; when the page's join-room has succeeded it holds  *)
(* the same currentTurn (red) and turnNumber (1), so isMyTurn() is false   *)
(* for the joiner.                                                         *)
C24_InitialTurnAtClients ==
    [][/\ (/\ last'.op = "create-room"
           /\ last'.conn = client.conn
           /\ last'.result = "room-created")
          => /\ client'.playerShip = "red"
             /\ client'.currentTurn = "red"
             /\ client'.turnNumber = <<1>>
             /\ IsMyTurn(client')
       /\ (/\ last'.op = "join-room"
           /\ last'.conn = client.conn
           /\ last'.result = "room-joined")
          => /\ client'.playerShip = "blue"
             /\ client'.currentTurn = "red"
             /\ client'.turnNumber = <<1>>
             /\ ~IsMyTurn(client')]_vars

(* C25: a timer callback removes a Player record only when a full grace    *)
(* period has passed since the record was last marked disconnected: at     *)
(* the removal now >= disconnectedAt + DISCONNECTION_GRACE_PERIOD.         *)
C25_FullGracePeriod ==
    [][(last'.op = "grace-timeout" /\ last'.removed # 0) =>
          \A i \in 1..Len(GetRoom(rooms, last'.roomId).players) :
             LET p == GetRoom(rooms, last'.roomId).players[i] IN
             p.uid = last'.removed
                => now >= p.disconnectedAt[1] + DISCONNECTION_GRACE_PERIOD]_vars

(* C26: the callback of a timer removes no Player record but the one it    *)
(* was scheduled for; when that record is no longer in the room stored     *)
(* under the room id (it was removed, and another player has joined under  *)
(* the same ship, or the room was created anew under the same id), the     *)
(* callback leaves the room store as it is and sends nothing.              *)
C26_StaleTimerSparesNewOccupant ==
    [][last'.op = "grace-timeout" =>
          /\ last'.removed # 0 => last'.removed = last'.uid
          /\ last'.uid \notin UidsIn(rooms, last'.roomId)
                => (rooms' = rooms /\ out' = {})]_vars

(* Every Player record of the room stored under roomId is bound to a       *)
(* connection that has closed.                                             *)
AllGone(roomId) ==
    /\ HasRoom(rooms, roomId)
    /\ \A i \in 1..Len(GetRoom(rooms, roomId).players) :
          GetRoom(rooms, roomId).players[i].id \notin sockets

(* Every pending timer falls due within the time the clock is followed. *)
TimersFallDue == \A k \in 1..Len(timers) : timers[k].deadline <= MaxTicks * TickMs

(* C27: a room all of whose occupants' connections have closed is deleted  *)
(* from the store once the pending timers have fired, unless a connection  *)
(* gets bound to a slot of it again in the meantime: it does not stay in   *)
(* the store forever.                                                      *)
C27_AbandonedRoomIsDeleted ==
    \A r \in GeneratedIds :
        (AllGone(r) /\ TimersFallDue) ~> (~HasRoom(rooms, r) \/ ~AllGone(r))

(* C28: a ship-update naming a live room, sent by a connection that no     *)
(* Player record of the room is bound to, leaves the room's gameState as   *)
(* it is and is relayed to nobody.                                         *)
C28_UpdateFromOutsiderIgnored ==
    [][(/\ last'.op = "ship-update"
        /\ HasRoom(rooms, last'.roomId)
        /\ FindById(GetRoom(rooms, last'.roomId).players, last'.conn) = 0)
       => /\ GetRoom(rooms', last'.roomId).gameState =
                GetRoom(rooms, last'.roomId).gameState
          /\ out' = {}]_vars

(* The messages that concern the occupants of one room. *)
RoomScoped ==
    {"ship-updated", "player-joined", "player-disconnected", "player-reconnected",
     "player-left"}

(* Connection c is bound to a Player record of the room stored under roomId. *)
BoundTo(rs, roomId, c) ==
    HasRoom(rs, roomId) /\ FindById(GetRoom(rs, roomId).players, c) # 0

(* C29: a room-scoped message of a handler goes only to connections that   *)
(* are bound to a slot of the room, before or after the handler: none goes *)
(* to a connection whose binding an earlier reconnect-room took over.      *)
C29_RoomMessagesToOccupantsOnly ==
    [][\A m \in out' :
          m.type \in RoomScoped
             => (BoundTo(rooms, last'.roomId, m.to) \/ BoundTo(rooms', last'.roomId, m.to))]_vars

(* The handlers that only relay or answer. *)
AuxiliaryOps == {"transform-mode-change", "ship-selection-change", "get-room-info"}

(* C30: transform-mode-change, ship-selection-change and get-room-info     *)
(* leave the room store as it is (the same rooms, the same players, the    *)
(* same gameState); a relay reaches only the other connections that joined *)
(* the named room, never its sender, and get-room-info answers only the    *)
(* requester.                                                              *)
C30_AuxiliaryHandlersKeepStore ==
    [][last'.op \in AuxiliaryOps
       => /\ rooms' = rooms
          /\ \A m \in out' :
                IF last'.op = "get-room-info"
                THEN m.to = last'.conn
                ELSE /\ m.to # last'.conn
                     /\ last'.roomId \in DOMAIN members
                     /\ m.to \in members[last'.roomId]
                     /\ m.type \in {"transform-mode-changed", "ship-selection-changed"}]_vars

(* A relay has just reached the peer in a room with both ships taken. *)
C30_Witness ==
    /\ last.op \in {"transform-mode-change", "ship-selection-change"}
    /\ HasRoom(rooms, last.roomId)
    /\ Len(GetRoom(rooms, last.roomId).players) = 2
    /\ last.conn \in members[last.roomId]
    /\ out # {}
    /\ \A m \in out : m.to # last.conn

====
